---- MODULE Spec2Model ----
(***************************************************************************)
(* Job polling of the video clipper (frontend/src/App.jsx,                 *)
(* VideoClipperPage), the job store it polls, and the local worker         *)
(* launcher ("Start Worker.command").                                      *)
(*                                                                         *)
(* The page keeps React state (currentJob, pollInterval, clipperPhase,     *)
(* ...) and starts browser interval timers whose async callbacks fetch    *)
(* the job status.  A callback awaits its fetch, so requests of one timer  *)
(* overlap when an answer takes longer than the 2 s interval, and an       *)
(* answer is handled also after its timer was cleared.  Every request is   *)
(* a message in `net`: sent by the page, answered by the server (which     *)
(* fixes the response) and handled by the continuation of the handler      *)
(* that awaited it.                                                        *)
(***************************************************************************)
EXTENDS Integers, FiniteSets, Sequences, Bags, TLC

\* ---- bounds of the model ------------------------------------------------
MaxJobs == 1
MaxProgress == 1
MaxInFlight == 2
NumLaunchers == 2
MaxPosts == 2

\* ---- thresholds of the pollers -------------------------------------------
SmartNotFoundLimit == 3
ServerErrorLimit == 3
UploadNotFoundLimit == 2
NetworkErrorLimit == 5

\* ---- largest value of the count inputs of AutoPostPage --------------------
MaxCount == 20

VARIABLES
    store,          \* server: job id -> [status, progress, cancel]
    nextJob,        \* server: next job id to hand out
    outage,         \* server: TRUE once it answers every status fetch with 5xx/404
    currentJob,     \* page: useState currentJob
    pollInterval,   \* page: useState pollInterval (timer id, 0 = null)
    clipperPhase,   \* page: useState clipperPhase
    smartResults,   \* page: useState smartResults (number of clips shown)
    jobResult,      \* page: useState jobResult ("none" = null)
    uploading,      \* page: useState uploading
    pollErrorCount, \* page: pollErrorCountRef.current
    timers,         \* browser: interval timers that are running
    timerInfo,      \* browser: timer id -> [kind, job] of every timer ever started
    notFoundCount,  \* closure variable notFoundCount of each smart timer
    net,            \* bag of requests in flight
    run,            \* history: timer id -> current run of equal error answers
    finalFetches,   \* history: job id -> number of final results requests sent
    launcher,       \* Start Worker.command: launcher -> step of the script
    workers,        \* run_worker.py processes that are running
    seen,           \* worker -> jobs its last poll of pending work listed
    claimed,        \* job id -> workers that started rendering it
    viralCandidates,    \* page: useState viralCandidates (length of the list)
    selectedCandidates, \* page: useState selectedCandidates (size of the set)
    mounted,        \* is VideoClipperPage mounted (currentPage === 'clipper')
    orphans,        \* timers started by instances of the page that were unmounted
    saved,          \* localStorage entry clipper_current_job ([id, at], id 0 = none)
    now,            \* Date.now(), in minutes
    jobStart,       \* history: job id -> time the page started the job
    currentPage,    \* App: useState currentPage
    postingToIG,    \* App: useState postingToIG
    igRequests,     \* post id -> POST /instagram/post requests in flight
    autoPostSettings, \* App: useState autoPostSettings (NoSettings = null)
    localSettings,  \* AutoPostPage: useState localSettings (NoSettings = unmounted)
    savingSettings, \* body of the PUT /auto-post/settings in flight, or NoSettings
    lastOk          \* history: timer id -> [ok: was its last handled status answer a
                    \* success, recovered: and did that success follow a failure]

serverVars == <<store, nextJob, outage>>
pageVars == <<currentJob, pollInterval, clipperPhase, smartResults, jobResult,
              uploading, pollErrorCount>>
timerVars == <<timers, timerInfo, notFoundCount>>
histVars == <<run, finalFetches, lastOk>>
workerVars == <<launcher, workers, seen, claimed>>
selectVars == <<viralCandidates, selectedCandidates>>
sessionVars == <<mounted, orphans, saved, now, jobStart>>
appVars == <<currentPage, postingToIG, igRequests, autoPostSettings, localSettings,
             savingSettings>>
vars == <<store, nextJob, outage, currentJob, pollInterval, clipperPhase,
          smartResults, jobResult, uploading, pollErrorCount, timers,
          timerInfo, notFoundCount, net, run, finalFetches, launcher,
          workers, seen, claimed, viralCandidates, selectedCandidates,
          mounted, orphans, saved, now, jobStart, lastOk, currentPage,
          postingToIG, igRequests, autoPostSettings, localSettings,
          savingSettings>>

JobIds == 1..MaxJobs
Launchers == 1..NumLaunchers

\* ---- data ------------------------------------------------------------------
Terminal == {"completed", "failed", "cancelled"}

Undef == -1

\* no entry clipper_current_job in localStorage
NoSaved == [id |-> 0, at |-> 0]

NoJob == [id |-> 0, status |-> "null", progress |-> Undef, error |-> "none"]

Job(id, status, progress, error) ==
    [id |-> id, status |-> status, progress |-> progress, error |-> error]

Pending == [code |-> -1, status |-> "none", progress |-> Undef, error |-> "none"]

Resp(code, status, progress, error) ==
    [code |-> code, status |-> status, progress |-> progress, error |-> error]

NetErr == Resp(0, "none", Undef, "none")
NotFound == Resp(404, "undefined", Undef, "none")
ServerErrorText == Resp(500, "text", Undef, "none")
ServerErrorJson == Resp(503, "undefined", Undef, "none")

Msg(op, timer, job, pi, final) ==
    [op |-> op, timer |-> timer, job |-> job, pi |-> pi, final |-> final,
     resp |-> Pending]

One(m) == SetToBag({m})

InFlight == BagToSet(net)

Room == BagCardinality(net) < MaxInFlight

Answered(m, r) == (net (-) One(m)) (+) One([m EXCEPT !.resp = r])

Min(a, b) == IF a < b THEN a ELSE b


\* ---- initial state ---------------------------------------------------------
PostIds == 1..MaxPosts

\* autoPostSettings === null; also localSettings while AutoPostPage is unmounted
NoSettings == [posts_per_day |-> Undef, carousel_count |-> Undef, news_count |-> Undef]

\* the object AutoPostPage passes to useState when settings is null
DefaultSettings == [posts_per_day |-> 3, carousel_count |-> 2, news_count |-> 1]

\* the merge of the effect on [settings]:
\* {...localSettings, ...settings, carousel_count: settings.carousel_count ?? 2,
\*  news_count: settings.news_count ?? 1}
MergeSettings(local, settings) ==
    [posts_per_day |-> IF settings.posts_per_day # Undef THEN settings.posts_per_day
                       ELSE local.posts_per_day,
     carousel_count |-> IF settings.carousel_count # Undef THEN settings.carousel_count
                        ELSE 2,
     news_count |-> IF settings.news_count # Undef THEN settings.news_count ELSE 1]

\* localSettings of AutoPostPage after it mounts: useState(settings || {...})
\* followed by the effect on [settings]
MountedSettings ==
    IF autoPostSettings # NoSettings
    THEN MergeSettings(autoPostSettings, autoPostSettings)
    ELSE DefaultSettings

\* App with the clipper page open, nothing posted, settings not loaded
AppStart ==
    /\ currentPage = "clipper"
    /\ postingToIG = FALSE
    /\ igRequests = [p \in PostIds |-> 0]
    /\ autoPostSettings = NoSettings
    /\ localSettings = NoSettings
    /\ savingSettings = NoSettings

Init ==
    /\ store = << >>
    /\ nextJob = 1
    /\ outage = FALSE
    /\ currentJob = NoJob
    /\ pollInterval = 0
    /\ clipperPhase = "input"
    /\ smartResults = 0
    /\ jobResult = "none"
    /\ uploading = FALSE
    /\ pollErrorCount = 0
    /\ timers = {}
    /\ timerInfo = << >>
    /\ notFoundCount = << >>
    /\ net = EmptyBag
    /\ run = << >>
    /\ finalFetches = [j \in JobIds |-> 0]
    /\ launcher = [l \in Launchers |-> "idle"]
    /\ workers = {}
    /\ seen = [l \in Launchers |-> {}]
    /\ claimed = [j \in JobIds |-> {}]
    /\ viralCandidates = 0
    /\ selectedCandidates = 0
    /\ mounted = TRUE
    /\ orphans = {}
    /\ saved = NoSaved
    /\ now = 0
    /\ jobStart = [j \in JobIds |-> 0]
    /\ lastOk = << >>
    /\ AppStart

\* ---- job store and pipeline stages (server) ---------------------------------
NewJob == [status |-> "queued", progress |-> 0, cancel |-> FALSE]

Exists(j) == j \in DOMAIN store

\* get(id): the status record a poll reads, or NotFound
Get(j) ==
    IF Exists(j)
    THEN Resp(200, store[j].status, store[j].progress,
              IF store[j].status = "failed" THEN "stage" ELSE "none")
    ELSE NotFound

\* a lookup that answers an unknown id with a record of its own making
StatusAnswersStale(j) ==
    {ServerErrorText, NotFound, Resp(200, "processing", 0, "none")}

\* answers a status fetch of job j can get: the record, NotFound for an
\* unknown id, a 5xx of the crashed server or its proxy (with a body that is
\* JSON or not), or no answer (fetch throws)
StatusAnswers(j) ==
    {ServerErrorText, ServerErrorJson}
      \cup (IF Exists(j) THEN {} ELSE {NotFound})
      \cup (IF outage THEN {} ELSE {NetErr})
      \cup (IF outage \/ ~Exists(j) THEN {} ELSE {Get(j)})

\* a stage starts on a queued job
StartJob(j) ==
    /\ ~outage
    /\ Exists(j)
    /\ store[j].status = "queued"
    /\ store' = [store EXCEPT ![j].status = "processing"]
    /\ UNCHANGED <<nextJob, outage, pageVars, timerVars, net, histVars, workerVars,
                   selectVars, sessionVars, appVars>>

\* a stage reports progress
Advance(j) ==
    /\ ~outage
    /\ Exists(j)
    /\ store[j].status = "processing"
    /\ store[j].progress < MaxProgress
    /\ store' = [store EXCEPT ![j].progress = @ + 1]
    /\ UNCHANGED <<nextJob, outage, pageVars, timerVars, net, histVars, workerVars,
                   selectVars, sessionVars, appVars>>

\* the last stage finishes
Complete(j) ==
    /\ ~outage
    /\ Exists(j)
    /\ store[j].status \in {"processing", "rendering"}
    /\ store' = [store EXCEPT ![j].status = "completed"]
    /\ UNCHANGED <<nextJob, outage, pageVars, timerVars, net, histVars, workerVars,
                   selectVars, sessionVars, appVars>>

\* a stage fails; the error message is captured
Fail(j) ==
    /\ ~outage
    /\ Exists(j)
    /\ store[j].status \in {"processing", "rendering"}
    /\ store' = [store EXCEPT ![j].status = "failed"]
    /\ UNCHANGED <<nextJob, outage, pageVars, timerVars, net, histVars, workerVars,
                   selectVars, sessionVars, appVars>>

\* a stage reaches its checkpoint and sees the cancel request
Checkpoint(j) ==
    /\ ~outage
    /\ Exists(j)
    /\ store[j].status = "processing"
    /\ store[j].cancel
    /\ store' = [store EXCEPT ![j].status = "cancelled"]
    /\ UNCHANGED <<nextJob, outage, pageVars, timerVars, net, histVars, workerVars,
                   selectVars, sessionVars, appVars>>

\* the process restarts: the in-memory job table is lost
Restart ==
    /\ ~outage
    /\ DOMAIN store # {}
    /\ store' = << >>
    /\ UNCHANGED <<nextJob, outage, pageVars, timerVars, net, histVars, workerVars,
                   selectVars, sessionVars, appVars>>

\* the server goes down for good: from now on only 5xx / NotFound
Crash ==
    /\ ~outage
    /\ outage' = TRUE
    /\ UNCHANGED <<store, nextJob, pageVars, timerVars, net, histVars, workerVars,
                   selectVars, sessionVars, appVars>>

\* ---- requests and their answers -------------------------------------------
OkResp(what) == Resp(200, what, Undef, "none")

\* POST /clipper/upload and POST /clipper/smart/analyze-full: a job is created
\* and its id returned, or the request is refused, or the fetch throws
ServeCreate(m) ==
    /\ m \in InFlight
    /\ m.op \in {"upload", "analyze"}
    /\ m.resp = Pending
    /\ \/ /\ ~outage
          /\ nextJob <= MaxJobs
          /\ store' = store @@ (nextJob :> NewJob)
          /\ nextJob' = nextJob + 1
          /\ net' = (net (-) One(m))
                      (+) One([m EXCEPT !.job = nextJob, !.resp = OkResp("job_id")])
       \/ /\ \E r \in {OkResp("detail"), NetErr} : net' = Answered(m, r)
          /\ UNCHANGED <<store, nextJob>>
    /\ UNCHANGED <<outage, pageVars, timerVars, histVars, workerVars, selectVars, sessionVars,
                   appVars>>

\* GET /clipper/job/{id}
ServeStatus(m) ==
    /\ m \in InFlight
    /\ m.op = "status"
    /\ m.resp = Pending
    /\ \E r \in StatusAnswers(m.job) :
          \* startPolling reads only res.status of a 5xx, never its body
          /\ timerInfo[m.timer].kind = "upload" => r # ServerErrorJson
          /\ net' = Answered(m, r)
    /\ UNCHANGED <<serverVars, pageVars, timerVars, histVars, workerVars,
                   selectVars, sessionVars, appVars>>

\* POST /clipper/job/{id}/cancel: the cancel flag is set on a running job
ServeCancel(m) ==
    /\ m \in InFlight
    /\ m.op \in {"cancel", "smartcancel"}
    /\ m.resp = Pending
    /\ \/ /\ ~outage
          /\ Exists(m.job)
          /\ store[m.job].status \in {"queued", "processing"}
          /\ store' = [store EXCEPT ![m.job].cancel = TRUE]
          /\ net' = Answered(m, OkResp("cancelled"))
       \/ /\ \E r \in {OkResp("refused"), NotFound, ServerErrorText, NetErr} :
                net' = Answered(m, r)
          /\ UNCHANGED store
    /\ UNCHANGED <<nextJob, outage, pageVars, timerVars, histVars, workerVars,
                   selectVars, sessionVars, appVars>>

\* GET /clipper/job/{id}/result and GET /clipper/smart/{id}/results
ServeResults(m) ==
    /\ m \in InFlight
    /\ m.op \in {"result", "results", "renderresults"}
    /\ m.resp = Pending
    /\ \E r \in {OkResp("empty"), NetErr}
              \cup (IF ~outage /\ Exists(m.job) THEN {OkResp("clips")} ELSE {}) :
          net' = Answered(m, r)
    /\ UNCHANGED <<serverVars, pageVars, timerVars, histVars, workerVars,
                   selectVars, sessionVars, appVars>>

\* ---- timers ------------------------------------------------------------------
\* history of the status answers a timer's callbacks handled
NoAnswer == [ok |-> TRUE, recovered |-> FALSE]

AnswerSeen(h, ok) == [ok |-> ok, recovered |-> ok /\ ~h.ok]

NewTimer == Len(timerInfo) + 1

NoRun == [kind |-> "none", n |-> 0]

\* clearInterval(pi) of the captured pollInterval, setInterval, setPollInterval
StartTimer(kind, job, pi) ==
    /\ timers' = (timers \ {pi}) \cup {NewTimer}
    /\ timerInfo' = Append(timerInfo, [kind |-> kind, job |-> job])
    /\ notFoundCount' = Append(notFoundCount, 0)
    /\ run' = Append(run, NoRun)
    /\ lastOk' = Append(lastOk, NoAnswer)
    /\ pollInterval' = NewTimer

StartPolling(job, pi) ==
    /\ StartTimer("upload", job, pi)
    /\ pollErrorCount' = 0

StartSmartPolling(job, pi) ==
    /\ StartTimer("smart", job, pi)
    /\ UNCHANGED pollErrorCount

\* the interval fires: the callback sends its status fetch and awaits it
Tick(t) ==
    /\ t \in timers
    /\ Room
    /\ net' = net (+) One(Msg("status", t, timerInfo[t].job, 0, FALSE))
    /\ UNCHANGED <<serverVars, pageVars, timerVars, histVars, workerVars,
                   selectVars, sessionVars, appVars>>

\* history: the run of consecutive 404 answers, or of consecutive 5xx
\* answers, that the callbacks of timer t handled last; any other outcome of
\* a fetch ends the run.  The length is kept up to RunCap.
RunCap == 3

ErrKind(r) ==
    CASE r.code = 404 -> "404"
      [] r.code \in {500, 503} -> "5xx"
      [] OTHER -> "none"

RunAfter(t, r) ==
    IF ErrKind(r) = "none" THEN NoRun
    ELSE IF run[t].kind = ErrKind(r)
         THEN [kind |-> ErrKind(r), n |-> Min(run[t].n + 1, RunCap)]
         ELSE [kind |-> ErrKind(r), n |-> 1]

\* ---- localStorage entry of the running job ------------------------------------
\* the effect on [currentJob?.id, currentJob?.status]: after a handler
\* changed the id or the status of currentJob and left it processing, the
\* entry is written with startedAt: Date.now(); remove says whether the
\* handler called localStorage.removeItem('clipper_current_job')
Persisted(remove) ==
    IF /\ currentJob'.id # 0
       /\ currentJob'.status = "processing"
       /\ (currentJob'.id # currentJob.id \/ currentJob'.status # currentJob.status)
    THEN [id |-> currentJob'.id, at |-> now]
    ELSE IF remove THEN NoSaved ELSE saved

\* ---- upload flow ---------------------------------------------------------------
\* handleUpload up to its await: the file input is disabled while uploading
HandleUpload ==
    /\ ~uploading
    /\ Room
    /\ uploading' = TRUE
    /\ jobResult' = "none"
    /\ net' = net (+) One(Msg("upload", 0, 0, pollInterval, FALSE))
    /\ UNCHANGED <<serverVars, currentJob, pollInterval, clipperPhase, smartResults,
                   pollErrorCount, timerVars, histVars, workerVars,
                   selectVars, sessionVars, appVars>>

\* handleUpload after its await; pollInterval is the value the call captured
HandleUploadDone(m) ==
    /\ m \in InFlight
    /\ m.op = "upload"
    /\ m.resp # Pending
    /\ net' = net (-) One(m)
    /\ uploading' = FALSE
    /\ IF m.resp.status = "job_id"
       THEN /\ currentJob' = Job(m.job, "processing", 0, "none")
            /\ StartPolling(m.job, m.pi)
            /\ jobStart' = [jobStart EXCEPT ![m.job] = now]
            /\ UNCHANGED finalFetches
       ELSE UNCHANGED <<currentJob, pollInterval, pollErrorCount, timerVars, histVars,
                        jobStart>>
    /\ saved' = Persisted(FALSE)
    /\ UNCHANGED <<serverVars, clipperPhase, smartResults, jobResult, workerVars,
                   selectVars, mounted, orphans, now, appVars>>

\* a callback of startPolling that stops its timer on the first error answer
UploadStopsAtOnce(r, cnt) ==
    \/ r.code # 200 /\ cnt >= 1
    \/ r.code = 200 /\ r.status \in Terminal

\* does the callback of startPolling stop its timer on answer r, the error
\* counter being cnt after this answer was counted
UploadStops(r, cnt) ==
    \/ r.code \in {500, 503} /\ cnt >= ServerErrorLimit
    \/ r.code = 404 /\ cnt >= UploadNotFoundLimit
    \/ r.code = 0 /\ cnt >= NetworkErrorLimit
    \/ r.code = 200 /\ r.status \in Terminal

\* the record the callback of startPolling writes on answer r
UploadRecord(j, r) ==
    CASE r.code = 200 -> Job(j, r.status, r.progress, r.error)
      [] r.code \in {500, 503} -> Job(j, "failed", 0, "Server Crashed")
      [] r.code = 404 -> Job(j, "failed", 0, "Job Lost")
      [] OTHER -> Job(j, "failed", 0, "Connection Lost")

\* the callback of startPolling after its await
PollUpload(m) ==
    LET t == m.timer
        j == timerInfo[t].job
        r == m.resp
        cnt == IF r.code = 200 THEN 0 ELSE pollErrorCount + 1
        stop == UploadStops(r, cnt)
        done == r.code = 200 /\ r.status = "completed"
    IN  /\ m \in InFlight
        /\ m.op = "status"
        /\ m.resp # Pending
        /\ timerInfo[t].kind = "upload"
        /\ pollErrorCount' = cnt
        /\ timers' = IF stop THEN timers \ {t} ELSE timers
        /\ pollInterval' = IF stop THEN 0 ELSE pollInterval
        /\ currentJob' = IF r.code = 200 \/ stop THEN UploadRecord(j, r) ELSE currentJob
        /\ net' = IF done
                  THEN (net (-) One(m)) (+) One(Msg("result", t, j, 0, TRUE))
                  ELSE net (-) One(m)
        /\ finalFetches' = IF done THEN [finalFetches EXCEPT ![j] = @ + 1]
                           ELSE finalFetches
        /\ run' = [run EXCEPT ![t] = RunAfter(t, r)]
        /\ lastOk' = [lastOk EXCEPT ![t] = AnswerSeen(@, r.code = 200)]
        /\ saved' = Persisted(FALSE)
        /\ UNCHANGED <<serverVars, clipperPhase, smartResults, jobResult, uploading,
                       timerInfo, notFoundCount, workerVars, selectVars, mounted,
                       orphans, now, jobStart, appVars>>

\* fetchJobResult after its await
FetchJobResultDone(m) ==
    /\ m \in InFlight
    /\ m.op = "result"
    /\ m.resp # Pending
    /\ net' = net (-) One(m)
    /\ jobResult' = IF m.resp.code = 200 THEN m.resp.status ELSE jobResult
    /\ UNCHANGED <<serverVars, currentJob, pollInterval, clipperPhase, smartResults,
                   uploading, pollErrorCount, timerVars, histVars, workerVars,
                   selectVars, sessionVars, appVars>>

\* cancelJob up to its await: the button of the legacy progress card
CancelJob ==
    /\ currentJob # NoJob
    /\ currentJob.status = "processing"
    /\ clipperPhase = "input"
    /\ currentJob.id # 0
    /\ Room
    /\ net' = net (+) One(Msg("cancel", 0, currentJob.id, 0, FALSE))
    /\ UNCHANGED <<serverVars, pageVars, timerVars, histVars, workerVars,
                   selectVars, sessionVars, appVars>>

\* any answer that parses taken for an acknowledgement
AcknowledgedAny(r) == r.code = 200

\* if (data.cancelled): the server acknowledged the cancel request
Acknowledged(r) == r.status = "cancelled"

\* cancelJob after its await
CancelJobDone(m) ==
    /\ m \in InFlight
    /\ m.op = "cancel"
    /\ m.resp # Pending
    /\ net' = net (-) One(m)
    /\ currentJob' = IF Acknowledged(m.resp)
                     THEN [currentJob EXCEPT !.status = "cancelling"]
                     ELSE currentJob
    /\ UNCHANGED <<serverVars, pollInterval, clipperPhase, smartResults, jobResult,
                   uploading, pollErrorCount, timerVars, histVars, workerVars,
                   selectVars, sessionVars, appVars>>

\* "Try Again" / "Start New Job" of the error and cancelled cards
Dismiss ==
    /\ currentJob # NoJob
    /\ currentJob.status \in {"failed", "cancelled"}
    /\ currentJob' = NoJob
    /\ UNCHANGED <<serverVars, pollInterval, clipperPhase, smartResults, jobResult,
                   uploading, pollErrorCount, timerVars, net, histVars, workerVars,
                   selectVars, sessionVars, appVars>>

\* ---- smart (YouTube) flow -------------------------------------------------------
\* handleYoutubeSubmit up to its await
HandleYoutubeSubmit ==
    /\ ~uploading
    /\ Room
    /\ uploading' = TRUE
    /\ jobResult' = "none"
    /\ smartResults' = 0
    /\ viralCandidates' = 0
    /\ selectedCandidates' = 0
    /\ clipperPhase' = "downloading"
    /\ net' = net (+) One(Msg("analyze", 0, 0, pollInterval, FALSE))
    /\ UNCHANGED <<serverVars, currentJob, pollInterval, pollErrorCount, timerVars,
                   histVars, workerVars, sessionVars, appVars>>

\* handleYoutubeSubmit after its await
HandleYoutubeSubmitDone(m) ==
    /\ m \in InFlight
    /\ m.op = "analyze"
    /\ m.resp # Pending
    /\ net' = net (-) One(m)
    /\ uploading' = FALSE
    /\ IF m.resp.status = "job_id"
       THEN /\ currentJob' = Job(m.job, "processing", 0, "none")
            /\ StartSmartPolling(m.job, m.pi)
            /\ jobStart' = [jobStart EXCEPT ![m.job] = now]
            /\ UNCHANGED <<clipperPhase, finalFetches>>
       ELSE /\ clipperPhase' = "input"
            /\ UNCHANGED <<currentJob, pollInterval, pollErrorCount, timerVars, histVars,
                           jobStart>>
    /\ saved' = Persisted(FALSE)
    /\ UNCHANGED <<serverVars, smartResults, jobResult, workerVars, selectVars, mounted,
                   orphans, now, appVars>>

\* data.detail || data.error: the detail text wins
DetailFirst(r) == "detail"

\* data.error || data.detail
ErrorText(r) == IF r.error # "none" THEN r.error ELSE "detail"

\* notFoundCount > 3 instead of >= 3
SmartGivesUpLate(nf) == nf > SmartNotFoundLimit

\* does the 404 branch of startSmartPolling give up, nf being the count
\* after this answer
SmartGivesUp(nf) == nf >= SmartNotFoundLimit

\* the callback of startSmartPolling after its awaits; probe is the outcome
\* of Math.random() < 0.2
PollSmart(m, probe) ==
    LET t == m.timer
        j == timerInfo[t].job
        r == m.resp
        parsed == r.code \in {200, 503}
        nf == IF r.code = 404 THEN notFoundCount[t] + 1
              ELSE IF r.code = 0 THEN notFoundCount[t] ELSE 0
        lost == r.code = 404 /\ SmartGivesUp(nf)
        done == parsed /\ r.status = "completed"
        failed == parsed /\ r.status = "failed"
        stop == lost \/ done \/ failed
        early == parsed /\ r.status = "processing" /\ probe
        \* the setters of an unmounted instance of the page change nothing
        live == t \notin orphans
    IN  /\ m \in InFlight
        /\ m.op = "status"
        /\ m.resp # Pending
        /\ timerInfo[t].kind = "smart"
        /\ probe => (r.code = 200 /\ r.status = "processing")
        /\ notFoundCount' = [notFoundCount EXCEPT ![t] = nf]
        /\ timers' = IF stop THEN timers \ {t} ELSE timers
        /\ pollInterval' = IF stop /\ live THEN 0 ELSE pollInterval
        /\ currentJob' =
             IF ~live THEN currentJob
             ELSE IF lost
             THEN [currentJob EXCEPT !.status = "failed", !.error = "Job lost"]
             ELSE IF failed
             THEN [currentJob EXCEPT !.status = r.status, !.progress = r.progress,
                                     !.error = ErrorText(r)]
             ELSE IF parsed
             THEN [currentJob EXCEPT !.status = r.status, !.progress = r.progress]
             ELSE currentJob
        /\ clipperPhase' =
             IF ~live THEN clipperPhase
             ELSE IF lost \/ failed THEN "input"
             ELSE IF parsed /\ r.status = "processing" THEN "downloading"
             ELSE clipperPhase
        /\ net' = IF done \/ early
                  THEN (net (-) One(m)) (+) One(Msg("results", t, j, 0, done))
                  ELSE net (-) One(m)
        /\ finalFetches' = IF done THEN [finalFetches EXCEPT ![j] = @ + 1]
                           ELSE finalFetches
        /\ run' = [run EXCEPT ![t] = RunAfter(t, r)]
        /\ lastOk' = [lastOk EXCEPT ![t] = AnswerSeen(@, r.code = 200)]
        /\ saved' = Persisted(done \/ failed)
        /\ UNCHANGED <<serverVars, smartResults, jobResult, uploading, pollErrorCount,
                       timerInfo, workerVars, selectVars, mounted, orphans, now,
                       jobStart, appVars>>

\* fetchSmartResults after its await
FetchSmartResultsDone(m) ==
    LET clips == m.resp.code = 200 /\ m.resp.status = "clips"
        live == m.timer \notin orphans
    IN  /\ m \in InFlight
        /\ m.op = "results"
        /\ m.resp # Pending
        /\ net' = net (-) One(m)
        /\ smartResults' = IF clips /\ live THEN 1 ELSE smartResults
        /\ clipperPhase' = IF clips /\ m.final /\ live THEN "done" ELSE clipperPhase
        /\ saved' = IF clips /\ m.final THEN NoSaved ELSE saved
        /\ UNCHANGED <<serverVars, currentJob, pollInterval, jobResult, uploading,
                       pollErrorCount, timerVars, histVars, workerVars, selectVars,
                       mounted, orphans, now, jobStart, appVars>>

\* handleCancelJob up to its await: the Cancel button of the progress card
HandleCancelJob ==
    /\ clipperPhase = "downloading"
    /\ currentJob # NoJob
    /\ currentJob.id # 0
    /\ Room
    /\ net' = net (+) One(Msg("smartcancel", 0, currentJob.id, pollInterval, FALSE))
    /\ UNCHANGED <<serverVars, pageVars, timerVars, histVars, workerVars,
                   selectVars, sessionVars, appVars>>

\* a handleCancelJob that takes every answer without res.ok for a failure
CancelNotOk(r) == r.code # 200

\* await fetch(...) of handleCancelJob throws: the catch branch; an answer
\* of any HTTP status resolves the await and its body is not read
CancelThrew(r) == r.code = 0

\* handleCancelJob after its await; nothing happens when the fetch threw
HandleCancelJobDone(m) ==
    /\ m \in InFlight
    /\ m.op = "smartcancel"
    /\ m.resp # Pending
    /\ net' = net (-) One(m)
    /\ IF CancelThrew(m.resp)
       THEN UNCHANGED <<timers, pollInterval, currentJob, clipperPhase, smartResults>>
       ELSE /\ timers' = timers \ {m.pi}
            /\ pollInterval' = IF m.pi # 0 THEN 0 ELSE pollInterval
            /\ currentJob' = NoJob
            /\ clipperPhase' = "input"
            /\ smartResults' = 0
    /\ saved' = IF CancelThrew(m.resp) THEN saved ELSE NoSaved
    /\ UNCHANGED <<serverVars, jobResult, uploading, pollErrorCount, timerInfo,
                   notFoundCount, histVars, workerVars, selectVars, mounted, orphans,
                   now, jobStart, appVars>>

\* "Create More Clips" of the results card
CreateMore ==
    /\ clipperPhase = "done"
    /\ smartResults > 0
    /\ clipperPhase' = "input"
    /\ viralCandidates' = 0
    /\ smartResults' = 0
    /\ currentJob' = NoJob
    /\ UNCHANGED <<serverVars, pollInterval, jobResult, uploading, pollErrorCount,
                   timerVars, net, histVars, workerVars, selectedCandidates,
                   sessionVars, appVars>>

\* ---- the page and the server ----------------------------------------------------
Next ==
    \/ \E j \in JobIds : StartJob(j)
    \/ \E j \in JobIds : Advance(j)
    \/ \E j \in JobIds : Complete(j)
    \/ \E j \in JobIds : Fail(j)
    \/ \E j \in JobIds : Checkpoint(j)
    \/ Restart
    \/ Crash
    \/ \E m \in InFlight : ServeCreate(m)
    \/ \E m \in InFlight : ServeStatus(m)
    \/ \E m \in InFlight : ServeCancel(m)
    \/ \E m \in InFlight : ServeResults(m)
    \/ \E t \in timers : Tick(t)
    \/ HandleUpload
    \/ \E m \in InFlight : HandleUploadDone(m)
    \/ \E m \in InFlight : PollUpload(m)
    \/ \E m \in InFlight : FetchJobResultDone(m)
    \/ CancelJob
    \/ \E m \in InFlight : CancelJobDone(m)
    \/ Dismiss
    \/ HandleYoutubeSubmit
    \/ \E m \in InFlight : HandleYoutubeSubmitDone(m)
    \/ \E m \in InFlight, probe \in BOOLEAN : PollSmart(m, probe)
    \/ \E m \in InFlight : FetchSmartResultsDone(m)
    \/ HandleCancelJob
    \/ \E m \in InFlight : HandleCancelJobDone(m)
    \/ CreateMore

Spec == Init /\ [][Next]_vars

\* ---- one submitted job, followed to its end -------------------------------------
\* the page right after handleUpload (kind "upload") or handleYoutubeSubmit
\* (kind "smart") got the id of job 1 and started its poller
Submitted(kind) ==
    /\ store = (1 :> NewJob)
    /\ nextJob = 2
    /\ outage = FALSE
    /\ currentJob = Job(1, "processing", 0, "none")
    /\ pollInterval = 1
    /\ clipperPhase = IF kind = "smart" THEN "downloading" ELSE "input"
    /\ smartResults = 0
    /\ jobResult = "none"
    /\ uploading = FALSE
    /\ pollErrorCount = 0
    /\ timers = {1}
    /\ timerInfo = <<[kind |-> kind, job |-> 1]>>
    /\ notFoundCount = <<0>>
    /\ net = EmptyBag
    /\ run = <<NoRun>>
    /\ finalFetches = [j \in JobIds |-> 0]
    /\ launcher = [l \in Launchers |-> "idle"]
    /\ workers = {}
    /\ seen = [l \in Launchers |-> {}]
    /\ claimed = [j \in JobIds |-> {}]
    /\ viralCandidates = 0
    /\ selectedCandidates = 0
    /\ mounted = TRUE
    /\ orphans = {}
    /\ saved = [id |-> 1, at |-> 0]
    /\ now = 0
    /\ jobStart = [j \in JobIds |-> 0]
    /\ lastOk = <<NoAnswer>>
    /\ AppStart

PollInit == Submitted("upload") \/ Submitted("smart")

PollNext ==
    \/ \E j \in JobIds : StartJob(j)
    \/ \E j \in JobIds : Advance(j)
    \/ \E j \in JobIds : Complete(j)
    \/ \E j \in JobIds : Fail(j)
    \/ \E j \in JobIds : Checkpoint(j)
    \/ Restart
    \/ Crash
    \/ \E m \in InFlight : ServeStatus(m)
    \/ \E m \in InFlight : ServeCancel(m)
    \/ \E m \in InFlight : ServeResults(m)
    \/ \E t \in timers : Tick(t)
    \/ \E m \in InFlight : PollUpload(m)
    \/ \E m \in InFlight : FetchJobResultDone(m)
    \/ CancelJob
    \/ \E m \in InFlight : CancelJobDone(m)
    \/ Dismiss
    \/ \E m \in InFlight, probe \in BOOLEAN : PollSmart(m, probe)
    \/ \E m \in InFlight : FetchSmartResultsDone(m)
    \/ HandleCancelJob
    \/ \E m \in InFlight : HandleCancelJobDone(m)
    \/ CreateMore

PollSpec == PollInit /\ [][PollNext]_vars

\* The browser fires a running interval again and again (strong fairness: the
\* bound on the requests in flight must not keep a timer from firing for
\* ever), the server answers every request, and every answer is handled.
Fairness ==
    /\ SF_vars(\E t \in timers : Tick(t))
    /\ WF_vars(\E m \in InFlight : ServeStatus(m))
    /\ WF_vars(\E m \in InFlight : ServeCancel(m))
    /\ WF_vars(\E m \in InFlight : ServeResults(m))
    /\ WF_vars(\E m \in InFlight : PollUpload(m))
    /\ WF_vars(\E m \in InFlight, probe \in BOOLEAN : PollSmart(m, probe))
    /\ WF_vars(\E m \in InFlight : FetchJobResultDone(m))
    /\ WF_vars(\E m \in InFlight : FetchSmartResultsDone(m))
    /\ WF_vars(\E m \in InFlight : CancelJobDone(m))
    /\ WF_vars(\E m \in InFlight : HandleCancelJobDone(m))

FairSpec == PollInit /\ [][PollNext]_vars /\ Fairness

\* ---- leaving the clipper page and coming back -------------------------------------
\* if (Date.now() - startedAt < 30 * 60 * 1000), in minutes
ResumeLimit == 30

\* the clock advances by Step minutes at a time, up to MaxTime
Step == 15
MaxTime == 30

\* timers a behaviour may start by resuming
MaxTimers == 2

Pass ==
    /\ now + Step <= MaxTime
    /\ now' = now + Step
    /\ UNCHANGED <<serverVars, pageVars, timerVars, net, histVars, workerVars,
                   selectVars, mounted, orphans, saved, jobStart, appVars>>

\* the user switches to another page of the app: {currentPage === 'clipper'
\* && <VideoClipperPage />} unmounts the component and its state is gone.
\* The cleanup of the mount effect reads the pollInterval of the first
\* render, which is null, so no timer is cleared.  Taken while no handler
\* awaits a fetch and only smart pollers were started.
Unmount(dest) ==
    /\ mounted
    /\ currentPage' = dest
    /\ localSettings' = IF dest = "autopost" THEN MountedSettings ELSE NoSettings
    /\ \A m \in InFlight : m.timer # 0
    /\ \A t \in DOMAIN timerInfo : timerInfo[t].kind = "smart"
    /\ mounted' = FALSE
    /\ orphans' = DOMAIN timerInfo
    /\ currentJob' = NoJob
    /\ pollInterval' = 0
    /\ clipperPhase' = "input"
    /\ smartResults' = 0
    /\ jobResult' = "none"
    /\ uploading' = FALSE
    /\ pollErrorCount' = 0
    /\ viralCandidates' = 0
    /\ selectedCandidates' = 0
    /\ UNCHANGED <<serverVars, timerVars, net, histVars, workerVars, saved, now,
                   jobStart, postingToIG, igRequests, autoPostSettings,
                   savingSettings>>

\* the user comes back: the component mounts with its initial state and the
\* resume effect reads the entry of localStorage
Mount ==
    /\ ~mounted
    /\ mounted' = TRUE
    /\ currentPage' = "clipper"
    /\ localSettings' = NoSettings
    /\ IF saved # NoSaved /\ now - saved.at < ResumeLimit
       THEN /\ Len(timerInfo) < MaxTimers
            /\ currentJob' = Job(saved.id, "resuming", 0, "none")
            /\ clipperPhase' = "downloading"
            /\ StartSmartPolling(saved.id, 0)
            /\ UNCHANGED <<saved, finalFetches>>
       ELSE /\ saved' = NoSaved
            /\ UNCHANGED <<currentJob, clipperPhase, pollInterval, pollErrorCount,
                           timerVars, histVars>>
    /\ UNCHANGED <<serverVars, smartResults, jobResult, uploading, net, workerVars,
                   selectVars, orphans, now, jobStart, postingToIG, igRequests,
                   autoPostSettings, savingSettings>>

SessionNext ==
    \/ \E j \in JobIds : StartJob(j)
    \/ \E j \in JobIds : Complete(j)
    \/ \E m \in InFlight : ServeCreate(m)
    \/ \E m \in InFlight : ServeStatus(m)
    \/ \E m \in InFlight : ServeResults(m)
    \/ \E t \in timers : Tick(t)
    \/ mounted /\ HandleYoutubeSubmit
    \/ \E m \in InFlight : HandleYoutubeSubmitDone(m)
    \/ \E m \in InFlight, probe \in BOOLEAN : PollSmart(m, probe)
    \/ \E m \in InFlight : FetchSmartResultsDone(m)
    \/ Unmount("generator")
    \/ Mount
    \/ Pass

SessionSpec == Init /\ [][SessionNext]_vars

\* ---- the select card: choice of clips and of the render target -------------------
\* the select card is rendered:
\* clipperPhase === 'select' && viralCandidates.length > 0
SelectShown == clipperPhase = "select" /\ viralCandidates > 0

\* toggleCandidateSelection on a card of the list
ToggleCandidate ==
    /\ SelectShown
    /\ \E n \in {selectedCandidates - 1, selectedCandidates + 1} :
          /\ n \in 0..viralCandidates
          /\ selectedCandidates' = n
    /\ UNCHANGED <<serverVars, pageVars, timerVars, net, histVars, workerVars,
                   viralCandidates, sessionVars, appVars>>

\* handleRenderSelected up to its await: the two render buttons are disabled
\* while nothing is selected; the request carries use_local_worker in the
\* field final
HandleRenderSelected(renderOnPC) ==
    /\ SelectShown
    /\ selectedCandidates > 0
    /\ currentJob.id # 0
    /\ Room
    /\ clipperPhase' = "rendering"
    /\ net' = net (+) One(Msg("render", 0, currentJob.id, pollInterval, renderOnPC))
    /\ UNCHANGED <<serverVars, currentJob, pollInterval, smartResults, jobResult,
                   uploading, pollErrorCount, timerVars, histVars, workerVars,
                   selectVars, sessionVars, appVars>>

\* POST /clipper/smart/{id}/render: the job waits for a worker (queued) or is
\* rendered by the server (rendering); or the id is unknown to the store, the
\* request is answered 5xx with or without a JSON body, or the fetch throws
ServeRender(m) ==
    /\ m \in InFlight
    /\ m.op = "render"
    /\ m.resp = Pending
    /\ \/ /\ ~outage
          /\ Exists(m.job)
          /\ store[m.job].status = "processing"
          /\ store' = [store EXCEPT ![m.job].status =
                          IF m.final THEN "waiting_for_worker" ELSE "rendering"]
          /\ net' = Answered(m, OkResp(IF m.final THEN "queued" ELSE "rendering"))
       \/ /\ \E r \in {NotFound, ServerErrorJson, ServerErrorText, NetErr} :
                net' = Answered(m, r)
          /\ UNCHANGED store
    /\ UNCHANGED <<nextJob, outage, pageVars, timerVars, histVars, workerVars,
                   selectVars, sessionVars, appVars>>

StartRenderPolling(job, pi) ==
    /\ StartTimer("render", job, pi)
    /\ UNCHANGED pollErrorCount

\* handleRenderSelected after its awaits (fetch, res.json())
HandleRenderSelectedDone(m) ==
    LET r == m.resp
        threw == r.code \in {0, 500}
    IN  /\ m \in InFlight
        /\ m.op = "render"
        /\ r # Pending
        /\ net' = net (-) One(m)
        /\ IF ~threw /\ r.status = "queued"
           THEN /\ currentJob' = [currentJob EXCEPT !.status = "queued"]
                /\ clipperPhase' = "waiting"
                /\ StartSmartPolling(m.job, m.pi)
                /\ UNCHANGED finalFetches
           ELSE IF ~threw /\ r.status = "rendering"
           THEN /\ currentJob' = [currentJob EXCEPT !.status = "rendering",
                                                    !.progress = 0]
                /\ StartRenderPolling(m.job, m.pi)
                /\ UNCHANGED <<clipperPhase, finalFetches>>
           ELSE /\ clipperPhase' = IF threw THEN "select" ELSE clipperPhase
                /\ UNCHANGED <<currentJob, pollInterval, pollErrorCount, timerVars,
                               histVars>>
        /\ UNCHANGED <<serverVars, smartResults, jobResult, uploading, workerVars,
                       selectVars, sessionVars, appVars>>

\* the callback of startRenderPolling after its awaits of the status fetch
\* and of res.json(): every body that parses is written into currentJob
PollRender(m) ==
    LET t == m.timer
        j == timerInfo[t].job
        r == m.resp
        parsed == r.code \in {200, 404, 503}
        done == parsed /\ r.status = "completed"
        failed == parsed /\ r.status = "failed"
        stop == done \/ failed
    IN  /\ m \in InFlight
        /\ m.op = "status"
        /\ r # Pending
        /\ timerInfo[t].kind = "render"
        /\ timers' = IF stop THEN timers \ {t} ELSE timers
        /\ pollInterval' = IF stop THEN 0 ELSE pollInterval
        /\ currentJob' = IF parsed
                         THEN [currentJob EXCEPT !.status = r.status,
                                                 !.progress = r.progress]
                         ELSE currentJob
        /\ clipperPhase' = IF failed THEN "select" ELSE clipperPhase
        /\ net' = IF done
                  THEN (net (-) One(m)) (+) One(Msg("renderresults", t, j, 0, TRUE))
                  ELSE net (-) One(m)
        /\ finalFetches' = IF done THEN [finalFetches EXCEPT ![j] = @ + 1]
                           ELSE finalFetches
        /\ run' = [run EXCEPT ![t] = RunAfter(t, r)]
        /\ lastOk' = [lastOk EXCEPT ![t] = AnswerSeen(@, r.code = 200)]
        /\ saved' = Persisted(FALSE)
        /\ UNCHANGED <<serverVars, smartResults, jobResult, uploading, pollErrorCount,
                       timerInfo, notFoundCount, workerVars, selectVars, mounted,
                       orphans, now, jobStart, appVars>>

\* the callback of startRenderPolling after its await of the results fetch
RenderResultsDone(m) ==
    LET r == m.resp
    IN  /\ m \in InFlight
        /\ m.op = "renderresults"
        /\ r # Pending
        /\ net' = net (-) One(m)
        /\ smartResults' = IF r.code = 200 /\ r.status = "clips" THEN 1 ELSE smartResults
        /\ clipperPhase' = IF r.code # 200 THEN clipperPhase
                           ELSE IF r.status = "clips" THEN "done" ELSE "select"
        /\ UNCHANGED <<serverVars, currentJob, pollInterval, jobResult, uploading,
                       pollErrorCount, timerVars, histVars, workerVars, selectVars,
                       sessionVars, appVars>>

\* ---- local worker: launcher script and worker processes ---------------------------
\* a pipeline request is accepted by the server
AcceptJob ==
    /\ nextJob <= MaxJobs
    /\ store' = store @@ (nextJob :> NewJob)
    /\ nextJob' = nextJob + 1
    /\ UNCHANGED <<outage, pageVars, timerVars, net, histVars, workerVars,
                   selectVars, sessionVars, appVars>>

\* render-selection submission with "render on my computer": the job waits
\* for a worker
RenderLocal(j) ==
    /\ Exists(j)
    /\ store[j].status = "processing"
    /\ store' = [store EXCEPT ![j].status = "waiting_for_worker"]
    /\ UNCHANGED <<nextJob, outage, pageVars, timerVars, net, histVars, workerVars,
                   selectVars, sessionVars, appVars>>

\* the user double-clicks Start Worker.command
Launch(l) ==
    /\ launcher[l] \in {"idle", "exited"}
    /\ launcher' = [launcher EXCEPT ![l] = "check"]
    /\ UNCHANGED <<serverVars, pageVars, timerVars, net, histVars, workers, seen, claimed,
                   selectVars, sessionVars, appVars>>

\* EXISTING_PID=$(pgrep -f "run_worker.py.*railway" | head -1)
CheckExisting(l) ==
    /\ launcher[l] = "check"
    /\ launcher' = [launcher EXCEPT ![l] = IF workers # {} THEN "prompt" ELSE "deps"]
    /\ UNCHANGED <<serverVars, pageVars, timerVars, net, histVars, workers, seen, claimed,
                   selectVars, sessionVars, appVars>>

\* read -p "Kill it and start fresh? (y/n)": pkill of every worker, or exit 0
Prompt(l, reply) ==
    /\ launcher[l] = "prompt"
    /\ IF reply = "y"
       THEN /\ workers' = {}
            /\ seen' = [w \in Launchers |-> {}]
            /\ launcher' = [k \in Launchers |->
                              IF k = l THEN "deps"
                              ELSE IF launcher[k] = "worker" THEN "exited"
                              ELSE launcher[k]]
       ELSE /\ launcher' = [launcher EXCEPT ![l] = "exited"]
            /\ UNCHANGED <<workers, seen>>
    /\ UNCHANGED <<serverVars, pageVars, timerVars, net, histVars, claimed,
                   selectVars, sessionVars, appVars>>

\* the checks for python3 and ffmpeg and pip install, then
\* python3 run_worker.py <server>: the worker of this launcher runs
RunWorker(l) ==
    /\ launcher[l] = "deps"
    /\ launcher' = [launcher EXCEPT ![l] = "worker"]
    /\ workers' = workers \cup {l}
    /\ UNCHANGED <<serverVars, pageVars, timerVars, net, histVars, seen, claimed,
                   selectVars, sessionVars, appVars>>

\* Ctrl+C: the worker stops, the script ends
StopWorker(l) ==
    /\ launcher[l] = "worker"
    /\ launcher' = [launcher EXCEPT ![l] = "exited"]
    /\ workers' = workers \ {l}
    /\ seen' = [seen EXCEPT ![l] = {}]
    /\ UNCHANGED <<serverVars, pageVars, timerVars, net, histVars, claimed,
                   selectVars, sessionVars, appVars>>

\* a worker polls the pending-work endpoint
WorkerPoll(w) ==
    /\ w \in workers
    /\ seen' = [seen EXCEPT ![w] =
                  {j \in DOMAIN store : store[j].status = "waiting_for_worker"}]
    /\ UNCHANGED <<serverVars, pageVars, timerVars, net, histVars, launcher, workers,
                   claimed, selectVars, sessionVars, appVars>>

\* a worker starts rendering a job its poll listed: the claim is implicit
WorkerClaim(w, j) ==
    /\ w \in workers
    /\ j \in seen[w]
    /\ Exists(j)
    /\ seen' = [seen EXCEPT ![w] = @ \ {j}]
    /\ claimed' = [claimed EXCEPT ![j] = @ \cup {w}]
    /\ store' = [store EXCEPT ![j].status = "rendering"]
    /\ UNCHANGED <<nextJob, outage, pageVars, timerVars, net, histVars, launcher, workers,
                   selectVars, sessionVars, appVars>>

\* a worker reports its result through the job store
WorkerSubmit(w, j) ==
    /\ w \in workers
    /\ w \in claimed[j]
    /\ Exists(j)
    /\ store[j].status = "rendering"
    /\ store' = [store EXCEPT ![j].status = "completed"]
    /\ UNCHANGED <<nextJob, outage, pageVars, timerVars, net, histVars, workerVars,
                   selectVars, sessionVars, appVars>>

WorkerNext ==
    \/ AcceptJob
    \/ \E j \in JobIds : StartJob(j)
    \/ \E j \in JobIds : RenderLocal(j)
    \/ \E l \in Launchers : Launch(l)
    \/ \E l \in Launchers : CheckExisting(l)
    \/ \E l \in Launchers, reply \in {"y", "n"} : Prompt(l, reply)
    \/ \E l \in Launchers : RunWorker(l)
    \/ \E l \in Launchers : StopWorker(l)
    \/ \E w \in Launchers : WorkerPoll(w)
    \/ \E w \in Launchers, j \in JobIds : WorkerClaim(w, j)
    \/ \E w \in Launchers, j \in JobIds : WorkerSubmit(w, j)

WorkerSpec == Init /\ [][WorkerNext]_vars

\* the page showing the select card for job 1, the state handleRenderSelected
\* is written for: the analysis is done, the candidates are listed, nothing
\* is selected yet, no poller runs, one local worker is up
RenderInit ==
    /\ store = (1 :> [status |-> "processing", progress |-> 0, cancel |-> FALSE])
    /\ nextJob = 2
    /\ outage = FALSE
    /\ currentJob = Job(1, "processing", 0, "none")
    /\ pollInterval = 0
    /\ clipperPhase = "select"
    /\ smartResults = 0
    /\ jobResult = "none"
    /\ uploading = FALSE
    /\ pollErrorCount = 0
    /\ timers = {}
    /\ timerInfo = << >>
    /\ notFoundCount = << >>
    /\ net = EmptyBag
    /\ run = << >>
    /\ finalFetches = [j \in JobIds |-> 0]
    /\ launcher = [l \in Launchers |-> IF l = 1 THEN "worker" ELSE "idle"]
    /\ workers = {1}
    /\ seen = [l \in Launchers |-> {}]
    /\ claimed = [j \in JobIds |-> {}]
    /\ viralCandidates = 1
    /\ selectedCandidates = 0
    /\ mounted = TRUE
    /\ orphans = {}
    /\ saved = [id |-> 1, at |-> 0]
    /\ now = 0
    /\ jobStart = [j \in JobIds |-> 0]
    /\ lastOk = << >>
    /\ AppStart

RenderNext ==
    \/ \E j \in JobIds : Advance(j)
    \/ \E j \in JobIds : Complete(j)
    \/ \E j \in JobIds : Fail(j)
    \/ ToggleCandidate
    \/ \E renderOnPC \in BOOLEAN : HandleRenderSelected(renderOnPC)
    \/ \E m \in InFlight : ServeRender(m)
    \/ \E m \in InFlight : HandleRenderSelectedDone(m)
    \/ \E t \in timers : Tick(t)
    \/ \E m \in InFlight : ServeStatus(m)
    \/ \E m \in InFlight : ServeResults(m)
    \/ \E m \in InFlight : PollRender(m)
    \/ \E m \in InFlight : RenderResultsDone(m)
    \/ \E m \in InFlight, probe \in BOOLEAN : PollSmart(m, probe)
    \/ \E m \in InFlight : FetchSmartResultsDone(m)
    \/ \E w \in Launchers : WorkerPoll(w)
    \/ \E w \in Launchers, j \in JobIds : WorkerClaim(w, j)

RenderSpec == RenderInit /\ [][RenderNext]_vars

\* ---- the other pages: Instagram publishing and auto-post settings ------------------
OtherPages == {"generator", "autopost", "history"}

\* a nav button, or View of the history list, while another page than the
\* clipper is shown; AutoPostPage mounts and unmounts with its page
SetCurrentPage(p) ==
    /\ currentPage \in OtherPages
    /\ p \in OtherPages \ {currentPage}
    /\ currentPage' = p
    /\ localSettings' = IF p = "autopost" THEN MountedSettings ELSE NoSettings
    /\ UNCHANGED <<serverVars, pageVars, timerVars, net, histVars, workerVars,
                   selectVars, sessionVars, postingToIG, igRequests,
                   autoPostSettings, savingSettings>>

InstagramInFlight(p) == igRequests[p]

\* postToInstagram up to its await: the button of the generator page is
\* disabled while postingToIG, the Post button of the history list is not
PostToInstagram(postId) ==
    /\ currentPage \in {"generator", "history"}
    /\ currentPage = "generator" => ~postingToIG
    /\ InstagramInFlight(postId) < MaxInFlight
    /\ postingToIG' = TRUE
    /\ igRequests' = [igRequests EXCEPT ![postId] = @ + 1]
    /\ UNCHANGED <<serverVars, pageVars, timerVars, net, histVars, workerVars,
                   selectVars, sessionVars, currentPage, autoPostSettings,
                   localSettings, savingSettings>>

\* postToInstagram after its await: success, an error answer or a throw
\* only differ in the alert; finally setPostingToIG(false)
PostToInstagramDone(postId) ==
    /\ igRequests[postId] > 0
    /\ igRequests' = [igRequests EXCEPT ![postId] = @ - 1]
    /\ postingToIG' = FALSE
    /\ UNCHANGED <<serverVars, pageVars, timerVars, net, histVars, workerVars,
                   selectVars, sessionVars, currentPage, autoPostSettings,
                   localSettings, savingSettings>>

\* settings as an earlier version of the page saved them: posts_per_day
\* chosen alone, no counts
LegacySettings == [posts_per_day |-> 5, carousel_count |-> Undef, news_count |-> Undef]

\* answers of GET /auto-post/settings
ServerSettings == {DefaultSettings, LegacySettings}

\* fetchAutoPostSettings after its await; a mounted AutoPostPage then runs
\* its effect on [settings]
FetchAutoPostSettingsDone(data) ==
    /\ autoPostSettings = NoSettings
    /\ savingSettings = NoSettings
    /\ autoPostSettings' = data
    /\ localSettings' = IF currentPage = "autopost"
                        THEN MergeSettings(localSettings, data)
                        ELSE localSettings
    /\ UNCHANGED <<serverVars, pageVars, timerVars, net, histVars, workerVars,
                   selectVars, sessionVars, currentPage, postingToIG, igRequests,
                   savingSettings>>

\* Math.max(0, Math.min(20, parseInt(e.target.value) || 0))
ClampCount(typed) ==
    IF typed < 0 THEN 0 ELSE IF typed > MaxCount THEN MaxCount ELSE typed

\* the quick buttons of a count
QuickCounts == {0, 1, 2, 3, 5, 10}

\* values typed into a count input (parseInt; NaN gives 0 like "0")
TypedCounts == {-1, 0, 25}

\* the counts the model enters: some quick buttons and the typed values
CountChoices == {n \in QuickCounts : n \in {0, 2, 10}}
                   \cup {ClampCount(typed) : typed \in TypedCounts}

\* onChange of the carousel input and onClick of its quick buttons
SetCarouselCount(val) ==
    /\ currentPage = "autopost"
    /\ localSettings' = [localSettings EXCEPT
                            !.carousel_count = val,
                            !.posts_per_day = val + localSettings.news_count]
    /\ UNCHANGED <<serverVars, pageVars, timerVars, net, histVars, workerVars,
                   selectVars, sessionVars, currentPage, postingToIG, igRequests,
                   autoPostSettings, savingSettings>>

\* onChange of the news input and onClick of its quick buttons
SetNewsCount(val) ==
    /\ currentPage = "autopost"
    /\ localSettings' = [localSettings EXCEPT
                            !.news_count = val,
                            !.posts_per_day = localSettings.carousel_count + val]
    /\ UNCHANGED <<serverVars, pageVars, timerVars, net, histVars, workerVars,
                   selectVars, sessionVars, currentPage, postingToIG, igRequests,
                   autoPostSettings, savingSettings>>

\* handleSave -> saveAutoPostSettings up to its await: the Save button is
\* disabled while a save is in flight
HandleSave ==
    /\ currentPage = "autopost"
    /\ savingSettings = NoSettings
    /\ savingSettings' = localSettings
    /\ UNCHANGED <<serverVars, pageVars, timerVars, net, histVars, workerVars,
                   selectVars, sessionVars, currentPage, postingToIG, igRequests,
                   autoPostSettings, localSettings>>

\* saveAutoPostSettings after its await: the server answers with the
\* settings it stored, or the request throws
SaveAutoPostSettingsDone(ok) ==
    /\ savingSettings # NoSettings
    /\ savingSettings' = NoSettings
    /\ autoPostSettings' = IF ok THEN savingSettings ELSE autoPostSettings
    /\ localSettings' = IF ok /\ currentPage = "autopost"
                        THEN MergeSettings(localSettings, savingSettings)
                        ELSE localSettings
    /\ UNCHANGED <<serverVars, pageVars, timerVars, net, histVars, workerVars,
                   selectVars, sessionVars, currentPage, postingToIG, igRequests>>

\* App as first rendered: the generator page, the clipper page not mounted
AppInit ==
    /\ store = << >>
    /\ nextJob = 1
    /\ outage = FALSE
    /\ currentJob = NoJob
    /\ pollInterval = 0
    /\ clipperPhase = "input"
    /\ smartResults = 0
    /\ jobResult = "none"
    /\ uploading = FALSE
    /\ pollErrorCount = 0
    /\ timers = {}
    /\ timerInfo = << >>
    /\ notFoundCount = << >>
    /\ net = EmptyBag
    /\ run = << >>
    /\ finalFetches = [j \in JobIds |-> 0]
    /\ launcher = [l \in Launchers |-> "idle"]
    /\ workers = {}
    /\ seen = [l \in Launchers |-> {}]
    /\ claimed = [j \in JobIds |-> {}]
    /\ viralCandidates = 0
    /\ selectedCandidates = 0
    /\ mounted = FALSE
    /\ orphans = {}
    /\ saved = NoSaved
    /\ now = 0
    /\ jobStart = [j \in JobIds |-> 0]
    /\ lastOk = << >>
    /\ currentPage = "generator"
    /\ postingToIG = FALSE
    /\ igRequests = [p \in PostIds |-> 0]
    /\ autoPostSettings = NoSettings
    /\ localSettings = NoSettings
    /\ savingSettings = NoSettings

AppNext ==
    \/ \E p \in OtherPages : SetCurrentPage(p)
    \/ Mount
    \/ \E dest \in OtherPages : Unmount(dest)
    \/ \E postId \in PostIds : PostToInstagram(postId)
    \/ \E postId \in PostIds : PostToInstagramDone(postId)
    \/ \E data \in ServerSettings : FetchAutoPostSettingsDone(data)
    \/ \E val \in CountChoices : SetCarouselCount(val)
    \/ \E val \in CountChoices : SetNewsCount(val)
    \/ HandleSave
    \/ \E ok \in BOOLEAN : SaveAutoPostSettingsDone(ok)

AppSpec == AppInit /\ [][AppNext]_vars

\* ---- properties ------------------------------------------------------------------
Handled(m) ==
    \/ PollUpload(m)
    \/ \E probe \in BOOLEAN : PollSmart(m, probe)

CrashRecord(j) == Job(j, "failed", 0, "Server Crashed")

\* the upload poller t gave up on a run of three 5xx answers
AbandonedOnServerErrors(t) ==
    /\ timerInfo[t].kind = "upload"
    /\ t \notin timers
    /\ run[t] = [kind |-> "5xx", n |-> 3]

\* C1: in the upload flow the third consecutive 5xx answer stops the poller
\* and records the job as failed with the server-crash error, and once the
\* poller has given up this way no later status answer of that poller
\* changes the recorded job.
C1_ServerErrorsAbandonForGood ==
    [][\A m \in InFlight :
          (PollUpload(m) /\ m.timer \in DOMAIN timerInfo) =>
             /\ (m.resp.code \in {500, 503} /\ run'[m.timer].n >= 3) =>
                   (m.timer \notin timers'
                      /\ currentJob' = CrashRecord(timerInfo[m.timer].job))
             /\ AbandonedOnServerErrors(m.timer) => currentJob' = currentJob]_vars

\* C2: once every status fetch is answered with 5xx or NotFound, every
\* poller eventually stops.
C2_OutageEndsPolling == outage ~> (timers = {})

C4_OneTerminalStatus ==
    [][/\ \A j \in DOMAIN store \cap DOMAIN store' :
             (store[j].status \in Terminal /\ store'[j].status \in Terminal) =>
                store'[j].status = store[j].status
       /\ (/\ currentJob.status \in Terminal
           /\ currentJob'.status \in Terminal
           /\ currentJob'.id = currentJob.id) =>
              currentJob'.status = currentJob.status]_vars

\* C5: while a job stays in processing, its progress, in the store and in
\* currentJob, never decreases.
C5_ProgressNeverDecreases ==
    [][/\ \A j \in DOMAIN store \cap DOMAIN store' :
             (store[j].status = "processing" /\ store'[j].status = "processing") =>
                store'[j].progress >= store[j].progress
       /\ (/\ currentJob.status = "processing"
           /\ currentJob'.status = "processing"
           /\ currentJob'.id = currentJob.id) =>
              currentJob'.progress >= currentJob.progress]_vars

Rank(status) ==
    CASE status = "queued" -> 0
      [] status = "processing" -> 1
      [] status = "waiting_for_worker" -> 2
      [] status = "rendering" -> 3
      [] OTHER -> 4

JobStatus ==
    {"queued", "processing", "waiting_for_worker", "rendering"} \cup Terminal

\* C6: the status recorded for a job, in the store and in currentJob, only
\* moves forward along queued, processing, waiting_for_worker, rendering,
\* terminal.
C6_StatusOnlyMovesForward ==
    [][/\ \A j \in DOMAIN store \cap DOMAIN store' :
             Rank(store'[j].status) >= Rank(store[j].status)
       /\ (/\ currentJob.status \in JobStatus
           /\ currentJob'.status \in JobStatus
           /\ currentJob'.id = currentJob.id) =>
              Rank(currentJob'.status) >= Rank(currentJob.status)]_vars

\* C7: after the cancel request was acknowledged the recorded status does not
\* go back to processing: currentJob does not move from cancelling to
\* processing.
C7_CancelNeverResumes ==
    [][(currentJob.status = "cancelling" /\ currentJob'.id = currentJob.id) =>
          currentJob'.status # "processing"]_vars

\* C8: for one job the final results request is sent at most once, and once
\* it was sent no timer polls that job.
C8_FinalResultsOnce ==
    \A j \in JobIds :
        /\ finalFetches[j] <= 1
        /\ finalFetches[j] >= 1 =>
              \A t \in timers : timerInfo[t].job # j

\* C9: no job is claimed by two workers.
C9_ClaimedAtMostOnce ==
    \A j \in JobIds : Cardinality(claimed[j]) <= 1

\* a poll callback handles an answer that reports the job as failed
ObservesFailed(m) ==
    /\ Handled(m)
    /\ m.resp.code = 200
    /\ m.resp.status = "failed"

\* job-creation requests sent and not yet served
CreateRequests == {m \in InFlight : m.op \in {"upload", "analyze"} /\ m.resp = Pending}

\* job-creation requests are sent by the two submit handlers only
OnlySubmitCreates ==
    (CreateRequests' \ CreateRequests # {}) => (HandleUpload \/ HandleYoutubeSubmit)

\* C10 as claimed: a poller that observes failed stops, records the error
\* text of the server (error, or detail when error is absent) in
\* currentJob.error, returns the page to the input phase, and no job is
\* created again unless the user submits.
C10_FailedEndsJob ==
    [][/\ \A m \in InFlight :
             ObservesFailed(m) =>
                /\ m.timer \notin timers'
                /\ currentJob'.status = "failed"
                /\ currentJob'.error =
                      (IF m.resp.error # "none" THEN m.resp.error ELSE "detail")
                /\ clipperPhase' = "input"
       /\ OnlySubmitCreates]_vars

\* C10 as amended: a poller that observes failed stops and the job is
\* recorded as failed; no job is created again unless the user submits.
\* startSmartPolling records error, or detail when error is absent, and
\* returns the page to the input phase; startPolling records error as the
\* server sent it and leaves the phase as it is.
C10_FailedEndsJobPerFlow ==
    [][/\ \A m \in InFlight :
             ObservesFailed(m) =>
                /\ m.timer \notin timers'
                /\ currentJob'.status = "failed"
                /\ IF timerInfo[m.timer].kind = "smart"
                   THEN /\ currentJob'.error =
                              (IF m.resp.error # "none" THEN m.resp.error ELSE "detail")
                        /\ clipperPhase' = "input"
                   ELSE /\ currentJob'.error = m.resp.error
                        /\ clipperPhase' = clipperPhase
       /\ OnlySubmitCreates]_vars

\* C10 witness: the smart poller observed failed and the page shows the
\* error of the server in the input phase, polling stopped
C10_SmartFailureShown ==
    /\ \E t \in DOMAIN timerInfo : timerInfo[t].kind = "smart"
    /\ timers = {}
    /\ currentJob.status = "failed"
    /\ currentJob.error = "stage"
    /\ clipperPhase = "input"

\* C11: a job submitted through the smart flow (manual_topic_select goes to
\* the server in the form data and is read nowhere else in the page) leads
\* to the select card, from which handleRenderSelected is dispatched: a
\* job that arrives at its results has passed through candidate selection.
C11_SelectionReached == <>SelectShown \/ [](clipperPhase # "done")

\* what the page does instead: viralCandidates is only ever set to [] and
\* no handler that can run sets the phase to 'select'
C11_SelectNeverShown == viralCandidates = 0 /\ clipperPhase # "select"

C14_TerminalStopsPoller ==
    [][\A m \in InFlight :
          (Handled(m) /\ m.resp.code = 200 /\ m.resp.status \in Terminal) =>
             m.timer \notin timers']_vars

\* C15: at most one status-poll timer is running at any time, also after
\* the page was unmounted and mounted again and after a job was resumed from
\* localStorage.
C15_OnePoller == Cardinality(timers) <= 1

\* C17: on page load a poller is started for the saved job exactly if less
\* than 30 minutes have passed since the page started that job; otherwise
\* the entry is removed and no poller starts.
C17_ResumeWithinLimit ==
    [][(Mount /\ saved # NoSaved) =>
          LET started == Len(timerInfo') > Len(timerInfo)
          IN  /\ started <=> (now - jobStart[saved.id] < 30)
              /\ ~started => saved' = NoSaved]_vars

\* handleRenderSelected or a poller callback is between two of its awaits
\* (the render request, the fetch of the results)
RenderRequested == \E m \in InFlight : m.op \in {"render", "renderresults", "results"}

C18_CancelOnlyOnAck ==
    [][\A m \in InFlight :
          CancelJobDone(m) =>
             /\ timers' = timers
             /\ pollInterval' = pollInterval
             /\ clipperPhase' = clipperPhase
             /\ IF m.resp.code = 200 /\ m.resp.status = "cancelled"
                THEN /\ currentJob'.status = "cancelling"
                     /\ currentJob'.id = currentJob.id
                     /\ currentJob'.progress = currentJob.progress
                     /\ currentJob'.error = currentJob.error
                ELSE currentJob' = currentJob]_vars

\* the cancel of a polled job was acknowledged and its poller still runs
C18_CancelAcknowledged ==
    /\ currentJob.id = 1
    /\ currentJob.status = "cancelling"
    /\ pollInterval \in timers

\* C19: Start Worker.command keeps at most one local worker running: two
\* workers started through the launcher never run at the same time, also
\* when the launcher is started twice concurrently.
C19_OneWorker == Cardinality(workers) <= 1

\* C20: only consecutive failures count toward abandonment: a successful
\* status answer resets the error counter of startPolling and of
\* startSmartPolling to zero, and a poller gives a job up on an error answer
\* only when the answer it handled just before was a failure too.
C20_OnlyConsecutiveFailuresCount ==
    [][\A m \in InFlight :
          LET t == m.timer
              gaveUp == m.resp.code # 200 /\ t \in timers /\ t \notin timers'
          IN  /\ PollUpload(m) =>
                    /\ m.resp.code = 200 => pollErrorCount' = 0
                    /\ gaveUp => ~lastOk[t].ok
              /\ (\E probe \in BOOLEAN : PollSmart(m, probe)) =>
                    /\ m.resp.code = 200 => notFoundCount'[t] = 0
                    /\ gaveUp => ~lastOk[t].ok]_vars

\* a poller handled a failure and then a success: its counter is back at
\* zero and it still runs
C20_FailedThenRecovered ==
    \E t \in timers :
       /\ lastOk[t].ok
       /\ lastOk[t].recovered
       /\ \/ timerInfo[t].kind = "upload" /\ pollErrorCount = 0
          \/ timerInfo[t].kind = "smart" /\ notFoundCount[t] = 0

\* C21: a status answer is applied only while its poller is still running:
\* once the timer was stopped, the answer of a fetch that was still in
\* flight changes neither currentJob nor clipperPhase nor smartResults; and
\* the results of a job that is not the current one any more (cancelled
\* through handleCancelJob) change neither clipperPhase nor smartResults.
C21_StaleAnswersIgnored ==
    [][\A m \in InFlight :
          /\ (Handled(m) /\ m.timer \notin timers) =>
                /\ currentJob' = currentJob
                /\ clipperPhase' = clipperPhase
                /\ smartResults' = smartResults
          /\ (FetchSmartResultsDone(m) /\ currentJob.id # m.job) =>
                /\ clipperPhase' = clipperPhase
                /\ smartResults' = smartResults]_vars

\* C22: whenever a poller ends for a job (completed, failed, lost after
\* repeated NotFound, abandoned after server or network errors, cancelled),
\* the entry clipper_current_job is absent afterwards, in the smart flow and
\* in the upload flow.
C22_EndedJobNotPersisted ==
    [][\A m \in InFlight :
          /\ (Handled(m) /\ m.timer \in timers /\ m.timer \notin timers') =>
                saved' = NoSaved
          /\ (HandleCancelJobDone(m) /\ m.pi \in timers /\ m.pi \notin timers') =>
                saved' = NoSaved]_vars

\* the callback of startSmartPolling handled a completed answer: it sent
\* the final results request of its job
SmartObservedCompleted ==
    \E t \in DOMAIN timerInfo :
       /\ timerInfo[t].kind = "smart"
       /\ finalFetches[timerInfo[t].job] > 0

\* C23: after the smart poller observed status completed the page
\* eventually leaves the progress view: clipperPhase becomes 'done' or
\* returns to 'input', whatever the results endpoint answers.
C23_CompletedLeavesProgress ==
    SmartObservedCompleted ~> (clipperPhase \in {"done", "input"})

\* C24: handleCancelJob: when its request returns, whatever the HTTP
\* status, the poll timer is cleared, currentJob is null, clipperPhase is
\* 'input', smartResults is empty and the persisted entry is removed; when
\* the request throws none of these change and the poller keeps running;
\* the request is only sent for a current job with an id.
C24_CancelResetsPage ==
    /\ [][\A m \in InFlight :
             HandleCancelJobDone(m) =>
                IF m.resp.code # 0
                THEN /\ timers' = {}
                     /\ pollInterval' = 0
                     /\ currentJob' = NoJob
                     /\ clipperPhase' = "input"
                     /\ smartResults' = 0
                     /\ saved' = NoSaved
                ELSE /\ timers' = timers
                     /\ pollInterval' = pollInterval
                     /\ currentJob' = currentJob
                     /\ clipperPhase' = clipperPhase
                     /\ smartResults' = smartResults
                     /\ saved' = saved]_vars
    /\ [][HandleCancelJob => (currentJob # NoJob /\ currentJob.id # 0)]_vars

\* the cancel request came back without an acknowledgement of the server
\* (the job is still processing in the store, no cancel flag) and the page
\* was reset
C24_ResetWithoutAck ==
    /\ Exists(1)
    /\ store[1].status = "processing"
    /\ ~store[1].cancel
    /\ timerInfo[1].kind = "smart"
    /\ run[1] = NoRun
    /\ currentJob = NoJob
    /\ clipperPhase = "input"
    /\ timers = {}
    /\ saved = NoSaved

\* C25: at most one Instagram publish request is in flight at a time: while
\* postToInstagram awaits the server no second call can be started from any
\* page, so no post has two publish requests in flight.
C25_OnePublishInFlight ==
    /\ \A p \in PostIds : InstagramInFlight(p) <= 1
    /\ \A p, q \in PostIds : (p # q) => (InstagramInFlight(p) = 0 \/ InstagramInFlight(q) = 0)

\* C26: while AutoPostPage is shown, localSettings.posts_per_day equals
\* carousel_count + news_count and both counts are within 0..20.
C26_TotalMatchesCounts ==
    currentPage = "autopost" =>
       /\ localSettings.posts_per_day
             = localSettings.carousel_count + localSettings.news_count
       /\ localSettings.carousel_count \in 0..MaxCount
       /\ localSettings.news_count \in 0..MaxCount

====
